---- MODULE Spec2Model ----
(***************************************************************************)
(* Model of xds/internal/xdsclient/transport/transport.go: the ADS         *)
(* transport of the xDS client.  Three goroutines (adsRunner with recv     *)
(* inline, send, and the caller of Close) plus callers of SendRequest.     *)
(***************************************************************************)
EXTENDS Integers, Sequences, FiniteSets, TLC

\* ---------------------------------------------------------------- bounds
\* Environment events explored in one behaviour: calls of SendRequest and of
\* Close, returns of newAggregatedDiscoveryServiceStream (either way) and
\* responses read.
MaxEvents == 4

\* Capacity of adsStreamCh: make(chan adsStream, 1).
StreamChCap == 1

\* ------------------------------------------------------------ input sets
Types        == {"A", "B"}                       \* resource type URLs
NameLists    == {<<>>, <<"x">>, <<"x", "y">>}    \* resource name lists given to SendRequest
RecvVersions == {"1", "2"}                       \* versions the server puts in responses
Verdicts     == {"accept", "reject", "unsupported"}  \* results of the update handler

NoStream == 0        \* the nil adsStream
NoNonce  == ""       \* empty response_nonce
NoVersion == ""      \* empty version_info

VARIABLES
    resources,      \* t.resources: type URL -> set of names (a Go map: partial)
    versions,       \* t.versions:  type URL -> last ACKed version (partial)
    nonces,         \* t.nonces:    type URL -> last nonce received (partial)
    adsRequestCh,   \* t.adsRequestCh: unbounded FIFO of resourceRequest / ackRequest
    adsStreamCh,    \* t.adsStreamCh: buffered channel of capacity 1
    cancelled,      \* ctx.Done() is closed (adsRunnerCancel was called)
    closePc,        \* position of the caller inside Close()
    ccClosed,       \* t.cc.Close() has run
    runnerPc,       \* position of adsRunner (recv runs inline in it)
    runnerStream,   \* adsRunner's local `stream` (the one recv reads)
    msgReceived,    \* recv's local msgReceived
    backoffAttempt, \* adsRunner's local backoffAttempt
    backoffTimer,   \* argument of the last backoffTimer.Reset / NewTimer
    senderPc,       \* position of the send goroutine
    stream,         \* send's local `stream`
    wire,           \* stream.Send calls made by the latest step of send, in order
    sendOp,         \* which branch the latest step of send took
    outcomes,       \* history: per finished attempt, the value of resetBackoff
    subscribed,     \* history: per type, the name list of the last resourceRequest send processed
    taken,          \* history: the tickets of the requests send has taken, in order
    numPuts,        \* requests put on adsRequestCh so far (the last ticket given)
    recvTouched,    \* history: the maps of t that recv has read or written so far
    unsupportedNonces, \* history: nonces of the responses whose type the handler did not support
    received,       \* history: per response read, the stream it was read on and its type URL
    numErrors,      \* calls of t.adsStreamErrHandler so far
    numOpenFails,   \* failed stream creations so far
    numStreams,     \* streams created so far (identities 1..numStreams)
    numResponses,   \* responses read so far
    numSubscribes   \* SendRequest calls so far

vars == <<resources, versions, nonces, adsRequestCh, adsStreamCh, cancelled,
          closePc, ccClosed, runnerPc, runnerStream, msgReceived,
          backoffAttempt, backoffTimer, senderPc, stream, wire, sendOp,
          outcomes, subscribed, taken, numPuts, recvTouched, unsupportedNonces, received, numErrors,
          numStreams, numOpenFails, numResponses, numSubscribes>>

stateVars  == <<resources, versions, nonces>>
closeVars  == <<cancelled, closePc, ccClosed>>
runnerVars == <<runnerPc, runnerStream, msgReceived, backoffAttempt,
                backoffTimer, outcomes, numStreams, numOpenFails>>
senderVars == <<senderPc, stream, wire, sendOp, subscribed, taken>>

\* ------------------------------------------------------------ Go helpers
\* Reading a Go map[string]string: the zero value "" when the key is absent.
Get(m, k) == IF k \in DOMAIN m THEN m[k] ELSE ""

\* m[k] = v on a Go map.
Put(m, k, v) == [x \in DOMAIN m \cup {k} |-> IF x = k THEN v ELSE m[x]]

\* make(map[...]...)
EmptyMap == [x \in {} |-> ""]

Range(s) == {s[i] : i \in DOMAIN s}

\* All orders in which a Go `range` over a map may visit the key set S.
Orders(S) == {s \in [1..Cardinality(S) -> S] : Range(s) = S}

\* sliceToMap: the set of the names of a slice (duplicates collapse).
sliceToMap(ss) == Range(ss)

\* mapToSlice: the names of the set in some iteration order.
mapToSlice(m) == Orders(m)

\* backoffTimer values: time.NewTimer(0) / Reset(0), or Reset(t.backoff(k)).
ZeroDelay  == [fn |-> "zero", retries |-> 0]
backoff(k) == [fn |-> "backoff", retries |-> k]

\* ------------------------------------------------------- request records
resourceRequest(url, names) ==
    [kind |-> "resource", url |-> url, resources |-> names,
     version |-> NoVersion, nonce |-> NoNonce, nackErr |-> FALSE, stream |-> NoStream]

ackRequest(url, version, nonce, nackErr, s) ==
    [kind |-> "ack", url |-> url, resources |-> <<>>,
     version |-> version, nonce |-> nonce, nackErr |-> nackErr, stream |-> s]

\* A request with the ticket of its Put: the requests are numbered in the
\* order in which they are put on adsRequestCh.
Ticketed(req, n) ==
    [seq |-> n, kind |-> req.kind, url |-> req.url, resources |-> req.resources,
     version |-> req.version, nonce |-> req.nonce, nackErr |-> req.nackErr,
     stream |-> req.stream]

\* buffer.Unbounded.Put: the request joins the end of the queue.
unboundedPut(q, req) == Append(q, Ticketed(req, numPuts + 1))

\* Mutant of unboundedGet: the newest request is delivered first.
unboundedGetNewest(q) == q[Len(q)]

\* <-buffer.Unbounded.Get(): the oldest request of the queue.
unboundedGet(q) == Head(q)

\* buffer.Unbounded.Load: the request just read leaves the queue and the next
\* one becomes readable.
unboundedLoad(q) == Tail(q)

\* One stream.Send(req) call: the DiscoveryRequest, the stream, and whether
\* Send returned nil (ok) or an error.
sendAggregatedDiscoveryServiceRequest(s, names, url, version, nonce, nackErr, ok) ==
    [stream |-> s, url |-> url, names |-> names, version |-> version,
     nonce |-> nonce, err |-> nackErr, ok |-> ok]

\* The nonce of the k-th response: servers issue a fresh nonce per response.
NonceOf(k) == "n" \o ToString(k)

\* Environment events so far, against MaxEvents.
Events ==
    numSubscribes + numStreams + numOpenFails + numResponses
      + (IF closePc = "idle" THEN 0 ELSE 1)

\* ------------------------------------------------------------------ Init
Init ==
    /\ resources = EmptyMap
    /\ versions = EmptyMap
    /\ nonces = EmptyMap
    /\ adsRequestCh = <<>>
    /\ adsStreamCh = <<>>
    /\ cancelled = FALSE
    /\ closePc = "idle"
    /\ ccClosed = FALSE
    /\ runnerPc = "loop"
    /\ runnerStream = NoStream
    /\ msgReceived = FALSE
    /\ backoffAttempt = 0
    /\ backoffTimer = ZeroDelay
    /\ senderPc = "select"
    /\ stream = NoStream
    /\ wire = <<>>
    /\ sendOp = "none"
    /\ outcomes = <<>>
    /\ subscribed = EmptyMap
    /\ taken = <<>>
    /\ numPuts = 0
    /\ recvTouched = {}
    /\ unsupportedNonces = {}
    /\ received = <<>>
    /\ numErrors = 0
    /\ numOpenFails = 0
    /\ numStreams = 0
    /\ numResponses = 0
    /\ numSubscribes = 0

\* ------------------------------------------------------------ Public API
\* SendRequest(url, resources): t.adsRequestCh.Put(&resourceRequest{...}).
SendRequest(url, names) ==
    /\ Events < MaxEvents
    /\ numSubscribes' = numSubscribes + 1
    /\ adsRequestCh' = unboundedPut(adsRequestCh, resourceRequest(url, names))
    /\ numPuts' = numPuts + 1
    /\ UNCHANGED <<stateVars, adsStreamCh, closeVars, runnerVars, senderVars,
                   numResponses, recvTouched, unsupportedNonces, received, numErrors>>

\* Close(), first statement: t.adsRunnerCancel().
CloseCancel ==
    /\ closePc = "idle"
    /\ Events < MaxEvents
    /\ closePc' = "waitDone"
    /\ cancelled' = TRUE
    /\ UNCHANGED <<stateVars, adsRequestCh, adsStreamCh, ccClosed, runnerVars,
                   senderVars, numResponses, numSubscribes,
                   numPuts, recvTouched, unsupportedNonces, received, numErrors>>

\* Mutant of AdsRunnerDone: adsRunner returns without closing adsRunnerDoneCh.
AdsRunnerDoneNever == FALSE

\* Mutant of AdsRunnerDone: Close does not wait for adsRunner.
AdsRunnerDoneNotAwaited == TRUE

\* <-t.adsRunnerDoneCh is readable once adsRunner's deferred close has run.
AdsRunnerDone == runnerPc = "done"

\* Close(), remainder: <-t.adsRunnerDoneCh; t.cc.Close().
CloseRelease ==
    /\ closePc = "waitDone"
    /\ AdsRunnerDone
    /\ closePc' = "closed"
    /\ ccClosed' = TRUE
    /\ UNCHANGED <<stateVars, adsRequestCh, adsStreamCh, cancelled, runnerVars,
                   senderVars, numResponses, numSubscribes,
                   numPuts, recvTouched, unsupportedNonces, received, numErrors>>

\* ------------------------------------------------- adsRunner (and recv)
\* for ctx.Err() == nil { ... }; on exit the deferred close(adsRunnerDoneCh).
RunnerLoop ==
    /\ runnerPc = "loop"
    /\ runnerPc' = IF cancelled THEN "done" ELSE "select"
    /\ UNCHANGED <<stateVars, adsRequestCh, adsStreamCh, closeVars,
                   runnerStream, msgReceived, backoffAttempt, backoffTimer,
                   outcomes, numStreams, numOpenFails, senderVars,
                   numResponses, numSubscribes,
                   numPuts, recvTouched, unsupportedNonces, received, numErrors>>

\* select { case <-backoffTimer.C: ... }: the timer fires after its delay.
RunnerTimer ==
    /\ runnerPc = "select"
    /\ runnerPc' = "open"
    /\ UNCHANGED <<stateVars, adsRequestCh, adsStreamCh, closeVars,
                   runnerStream, msgReceived, backoffAttempt, backoffTimer,
                   outcomes, numStreams, numOpenFails, senderVars,
                   numResponses, numSubscribes,
                   numPuts, recvTouched, unsupportedNonces, received, numErrors>>

\* select { case <-ctx.Done(): backoffTimer.Stop(); return }.
RunnerCtxDone ==
    /\ runnerPc = "select"
    /\ cancelled
    /\ runnerPc' = "done"
    /\ UNCHANGED <<stateVars, adsRequestCh, adsStreamCh, closeVars,
                   runnerStream, msgReceived, backoffAttempt, backoffTimer,
                   outcomes, numStreams, numOpenFails, senderVars,
                   numResponses, numSubscribes,
                   numPuts, recvTouched, unsupportedNonces, received, numErrors>>

\* Mutant of adsStreamErrHandler: the error is not reported.
adsStreamErrHandlerSkipped(n) == n

\* t.adsStreamErrHandler(err): one more call of the stream error callback.
adsStreamErrHandler(n) == n + 1

\* Mutant of AfterAttempt: a reset restarts the timer but keeps the counter.
AfterAttemptKeepsCounter(reset) ==
    /\ outcomes' = Append(outcomes, reset)
    /\ IF reset
         THEN backoffTimer' = ZeroDelay /\ backoffAttempt' = backoffAttempt
         ELSE /\ backoffTimer' = backoff(backoffAttempt)
              /\ backoffAttempt' = backoffAttempt + 1

\* if resetBackoff { Reset(0); backoffAttempt = 0 }
\* else { Reset(t.backoff(backoffAttempt)); backoffAttempt++ }.
AfterAttempt(reset) ==
    /\ outcomes' = Append(outcomes, reset)
    /\ IF reset
         THEN backoffTimer' = ZeroDelay /\ backoffAttempt' = 0
         ELSE /\ backoffTimer' = backoff(backoffAttempt)
              /\ backoffAttempt' = backoffAttempt + 1

\* newAggregatedDiscoveryServiceStream returns an error: the error handler is
\* called, resetBackoff is false.  Cancelling the context makes a blocked
\* call return, so that return is no event of its own.
RunnerOpenFail ==
    /\ runnerPc = "open"
    /\ (Events < MaxEvents \/ cancelled)
    /\ numErrors' = adsStreamErrHandler(numErrors)
    /\ AfterAttempt(FALSE)
    /\ numOpenFails' = numOpenFails + 1
    /\ runnerPc' = "loop"
    /\ UNCHANGED <<stateVars, adsRequestCh, adsStreamCh, closeVars,
                   runnerStream, msgReceived, numStreams, senderVars,
                   numResponses, numSubscribes,
                   numPuts, recvTouched, unsupportedNonces, received>>

\* newAggregatedDiscoveryServiceStream returns a new stream.  A call that is
\* in flight when the context is cancelled may still return either way.
RunnerOpenOk ==
    /\ runnerPc = "open"
    /\ Events < MaxEvents
    /\ numStreams' = numStreams + 1
    /\ runnerStream' = numStreams + 1
    /\ runnerPc' = "drain"
    /\ UNCHANGED <<stateVars, adsRequestCh, adsStreamCh, closeVars,
                   msgReceived, backoffAttempt, backoffTimer, outcomes,
                   numOpenFails, senderVars, numResponses, numSubscribes,
                   numPuts, recvTouched, unsupportedNonces, received, numErrors>>

\* Mutant of drainStreamCh: the pending handle is left in the channel.
drainStreamChSkipped(ch) == ch

\* select { case <-t.adsStreamCh: default: }: a pending handle is removed.
drainStreamCh(ch) == IF ch # <<>> THEN Tail(ch) ELSE ch

\* select { case <-t.adsStreamCh: default: }.
RunnerDrain ==
    /\ runnerPc = "drain"
    /\ adsStreamCh' = drainStreamCh(adsStreamCh)
    /\ runnerPc' = "publish"
    /\ UNCHANGED <<stateVars, adsRequestCh, closeVars, runnerStream,
                   msgReceived, backoffAttempt, backoffTimer, outcomes,
                   numStreams, numOpenFails, senderVars, numResponses,
                   numSubscribes,
                   numPuts, recvTouched, unsupportedNonces, received, numErrors>>

\* t.adsStreamCh <- stream (blocks while the channel is full), then recv
\* starts with msgReceived := false.
RunnerPublish ==
    /\ runnerPc = "publish"
    /\ Len(adsStreamCh) < StreamChCap
    /\ adsStreamCh' = Append(adsStreamCh, runnerStream)
    /\ msgReceived' = FALSE
    /\ runnerPc' = "recv"
    /\ UNCHANGED <<stateVars, adsRequestCh, closeVars, runnerStream,
                   backoffAttempt, backoffTimer, outcomes, numStreams,
                   numOpenFails, senderVars, numResponses, numSubscribes,
                   numPuts, recvTouched, unsupportedNonces, received, numErrors>>

\* Mutant of nackVersion: the NACK reports the version just received.
nackVersionReceived(url, rVersion) == rVersion

\* The version recv puts in a NACK: t.versions[url], read under t.mu.
nackVersion(url, rVersion) == Get(versions, url)

\* Mutant of recvMapReads: recv also looks up the last nonce for a NACK.
recvMapReadsNonces(verdict) ==
    IF verdict = "reject" THEN {"versions", "nonces"} ELSE {}

\* The maps of t that one iteration of recv reads: t.versions[url], under
\* t.mu, when the update handler returned a generic error; none otherwise.
\* recv assigns to none of them.
recvMapReads(verdict) == IF verdict = "reject" THEN {"versions"} ELSE {}

\* Mutant of recvEnqueue: an unsupported resource type is NACKed like any
\* other handler error.
recvEnqueueNacksUnsupported(s, url, rVersion, nonce, verdict) ==
    IF verdict = "accept"
      THEN unboundedPut(adsRequestCh, ackRequest(url, rVersion, nonce, FALSE, s))
      ELSE unboundedPut(adsRequestCh,
                        ackRequest(url, Get(versions, url), nonce, TRUE, s))

\* What recv enqueues for a response (url, rVersion, nonce) on stream s once
\* the update handler has given its verdict.
recvEnqueue(s, url, rVersion, nonce, verdict) ==
    CASE verdict = "unsupported" -> adsRequestCh
      [] verdict = "reject" ->
           unboundedPut(adsRequestCh,
                        ackRequest(url, nackVersion(url, rVersion), nonce, TRUE, s))
      [] verdict = "accept" ->
           unboundedPut(adsRequestCh, ackRequest(url, rVersion, nonce, FALSE, s))

\* One iteration of recv's loop whose stream.Recv() returned a response.
RecvResponse(url, rVersion, verdict) ==
    /\ runnerPc = "recv"
    /\ Events < MaxEvents
    /\ numResponses' = numResponses + 1
    /\ msgReceived' = TRUE
    /\ adsRequestCh' = recvEnqueue(runnerStream, url, rVersion,
                                   NonceOf(numResponses + 1), verdict)
    /\ numPuts' = numPuts + Len(adsRequestCh') - Len(adsRequestCh)
    /\ recvTouched' = recvTouched \cup recvMapReads(verdict)
    /\ received' = Append(received, [stream |-> runnerStream, url |-> url])
    /\ unsupportedNonces' =
          IF verdict = "unsupported"
            THEN unsupportedNonces \cup {NonceOf(numResponses + 1)}
            ELSE unsupportedNonces
    /\ UNCHANGED <<stateVars, adsStreamCh, closeVars, runnerPc, runnerStream,
                   backoffAttempt, backoffTimer, outcomes, numStreams,
                   numOpenFails, senderVars, numSubscribes, numErrors>>

\* stream.Recv() returned an error: the error handler is called and recv
\* returns msgReceived, which becomes resetBackoff.
RecvError ==
    /\ runnerPc = "recv"
    /\ numErrors' = adsStreamErrHandler(numErrors)
    /\ AfterAttempt(msgReceived)
    /\ runnerPc' = "loop"
    /\ UNCHANGED <<stateVars, adsRequestCh, adsStreamCh, closeVars,
                   runnerStream, msgReceived, numStreams, numOpenFails,
                   senderVars, numResponses, numSubscribes,
                   numPuts, recvTouched, unsupportedNonces, received>>

\* ------------------------------------------------------------------ send
\* case <-ctx.Done(): return.
SendCtxDone ==
    /\ senderPc = "select"
    /\ cancelled
    /\ senderPc' = "done"
    /\ UNCHANGED <<stateVars, adsRequestCh, adsStreamCh, closeVars, runnerVars,
                   stream, wire, sendOp, subscribed, taken, numResponses,
                   numSubscribes,
                   numPuts, recvTouched, unsupportedNonces, received, numErrors>>

\* Mutant of sendExistingNonces: the nonces map is not reset.
sendExistingNoncesKept == nonces

\* sendExisting: t.nonces = make(map[string]string).
sendExistingNonces == EmptyMap

\* Mutant of sendExistingRequest: the resend leaves the resource names out.
sendExistingRequestNoNames(s, url, names, ok) ==
    sendAggregatedDiscoveryServiceRequest(s, <<>>, url, Get(versions, url),
                                          NoNonce, FALSE, ok)

\* sendExisting: the request for one url of t.resources, with the slice
\* mapToSlice produced for it.
sendExistingRequest(s, url, names, ok) ==
    sendAggregatedDiscoveryServiceRequest(s, names, url, Get(versions, url),
                                          NoNonce, FALSE, ok)

\* sendExisting: the Send calls of the loop over t.resources visiting the urls
\* in `order`, with the slices `slices`; the `failAt`-th Send fails (0: none)
\* and ends the loop.
sendExistingWire(s, order, slices, failAt) ==
    [i \in 1..(IF failAt = 0 THEN Len(order) ELSE failAt) |->
        sendExistingRequest(s, order[i], slices[order[i]], i # failAt)]

\* case stream = <-t.adsStreamCh: if !t.sendExisting(stream) { stream = nil }.
SendNewStream ==
    /\ senderPc = "select"
    /\ adsStreamCh # <<>>
    /\ adsStreamCh' = Tail(adsStreamCh)
    /\ nonces' = sendExistingNonces
    /\ \E order \in Orders(DOMAIN resources) :
       \E slices \in [DOMAIN resources -> UNION {mapToSlice(resources[u]) : u \in DOMAIN resources}] :
       \E failAt \in 0..Len(order) :
          /\ \A u \in DOMAIN resources : slices[u] \in mapToSlice(resources[u])
          /\ wire' = sendExistingWire(Head(adsStreamCh), order, slices, failAt)
          /\ stream' = IF failAt = 0 THEN Head(adsStreamCh) ELSE NoStream
    /\ sendOp' = "existing"
    /\ UNCHANGED <<resources, versions, adsRequestCh, closeVars, runnerVars,
                   senderPc, subscribed, taken, numResponses, numSubscribes,
                   numPuts, recvTouched, unsupportedNonces, received, numErrors>>

\* Mutant of Transmit: send keeps the stream after a failed Send.
TransmitKeepsStream(names, url, version, nonce, nackErr) ==
    IF stream = NoStream
      THEN wire' = <<>> /\ stream' = stream
      ELSE \E ok \in BOOLEAN :
             /\ wire' = <<sendAggregatedDiscoveryServiceRequest(
                             stream, names, url, version, nonce, nackErr, ok)>>
             /\ stream' = stream

\* After processing a request: `if stream == nil { continue }`, else one
\* Send of the request, and `stream = nil` when it fails.
Transmit(names, url, version, nonce, nackErr) ==
    IF stream = NoStream
      THEN wire' = <<>> /\ stream' = stream
      ELSE \E ok \in BOOLEAN :
             /\ wire' = <<sendAggregatedDiscoveryServiceRequest(
                             stream, names, url, version, nonce, nackErr, ok)>>
             /\ stream' = IF ok THEN stream ELSE NoStream

\* Mutant of processResourceRequest: the new names are added to the old ones.
processResourceRequestMerged(req) ==
    Put(resources, req.url,
        (IF req.url \in DOMAIN resources THEN resources[req.url] ELSE {})
          \cup sliceToMap(req.resources))

\* Mutant of processResourceRequest: without a stream the request is skipped
\* before the map is updated.
processResourceRequestSkipped(req) ==
    IF stream = NoStream THEN resources
    ELSE Put(resources, req.url, sliceToMap(req.resources))

\* processResourceRequest: t.resources[req.url] = sliceToMap(req.resources).
processResourceRequest(req) == Put(resources, req.url, sliceToMap(req.resources))

\* case u := <-t.adsRequestCh.Get() with u a *resourceRequest.
ProcessResourceRequest ==
    /\ senderPc = "select"
    /\ adsRequestCh # <<>>
    /\ unboundedGet(adsRequestCh).kind = "resource"
    /\ adsRequestCh' = unboundedLoad(adsRequestCh)
    /\ resources' = processResourceRequest(unboundedGet(adsRequestCh))
    /\ Transmit(unboundedGet(adsRequestCh).resources, unboundedGet(adsRequestCh).url,
                Get(versions, unboundedGet(adsRequestCh).url),
                Get(nonces, unboundedGet(adsRequestCh).url), FALSE)
    /\ subscribed' = Put(subscribed, unboundedGet(adsRequestCh).url,
                          unboundedGet(adsRequestCh).resources)
    /\ sendOp' = "resource"
    /\ taken' = Append(taken, unboundedGet(adsRequestCh).seq)
    /\ UNCHANGED <<versions, nonces, adsStreamCh, closeVars, runnerVars,
                   senderPc, numResponses, numSubscribes,
                   numPuts, recvTouched, unsupportedNonces, received, numErrors>>

\* Mutant of ackIsStale: only the lack of a stream is checked, not which
\* stream the response came from.
ackIsStaleOnlyWithoutStream(ack, s) == s = NoStream

\* Mutant of ackIsStale: the stream check is missing.
ackIsStaleNever(ack, s) == FALSE

\* processAckRequest: if ack.stream != stream { return ..., false }.
ackIsStale(ack, s) == ack.stream # s

\* Mutant of ackHasNoResources: only a missing entry counts.
ackHasNoResourcesMissingOnly(ack) == ack.url \notin DOMAIN resources

\* processAckRequest: s, ok := t.resources[ack.url]; if !ok || len(s) == 0.
ackHasNoResources(ack) ==
    \/ ack.url \notin DOMAIN resources
    \/ Cardinality(resources[ack.url]) = 0

\* Mutant of ackVersions: a NACK records its version too.
ackVersionsAlways(ack) == Put(versions, ack.url, ack.version)

\* processAckRequest: if ack.nackErr == nil { t.versions[ack.url] = ack.version }.
ackVersions(ack) ==
    IF ~ack.nackErr THEN Put(versions, ack.url, ack.version) ELSE versions

\* Mutant of ackNonces: the nonce is recorded only when the request is sent.
ackNoncesOnlyWhenSent(ack) ==
    IF ack.url \notin DOMAIN resources \/ resources[ack.url] = {}
      THEN nonces ELSE Put(nonces, ack.url, ack.nonce)

\* processAckRequest: t.nonces[ack.url] = ack.nonce.
ackNonces(ack) == Put(nonces, ack.url, ack.nonce)

\* case u := <-t.adsRequestCh.Get() with u an *ackRequest.
ProcessAckRequest ==
    /\ senderPc = "select"
    /\ adsRequestCh # <<>>
    /\ unboundedGet(adsRequestCh).kind = "ack"
    /\ adsRequestCh' = unboundedLoad(adsRequestCh)
    /\ taken' = Append(taken, unboundedGet(adsRequestCh).seq)
    /\ LET ack == unboundedGet(adsRequestCh) IN
       IF ackIsStale(ack, stream)
         THEN /\ sendOp' = "ackStale"
              /\ wire' = <<>>
              /\ UNCHANGED <<nonces, versions, stream>>
         ELSE /\ nonces' = ackNonces(ack)
              /\ IF ackHasNoResources(ack)
                   THEN /\ sendOp' = "ackNoResources"
                        /\ wire' = <<>>
                        /\ UNCHANGED <<versions, stream>>
                   ELSE /\ sendOp' = "ack"
                        /\ versions' = ackVersions(ack)
                        /\ \E names \in mapToSlice(resources[ack.url]) :
                              Transmit(names, ack.url, ack.version, ack.nonce,
                                       ack.nackErr)
    /\ UNCHANGED <<resources, adsStreamCh, closeVars, runnerVars, senderPc,
                   subscribed, numResponses, numSubscribes,
                   numPuts, recvTouched, unsupportedNonces, received, numErrors>>

\* ------------------------------------------------------------------ Next
Next ==
    \/ \E url \in Types, names \in NameLists : SendRequest(url, names)
    \/ CloseCancel
    \/ CloseRelease
    \/ RunnerLoop
    \/ RunnerTimer
    \/ RunnerCtxDone
    \/ RunnerOpenFail
    \/ RunnerOpenOk
    \/ RunnerDrain
    \/ RunnerPublish
    \/ \E url \in Types, rVersion \in RecvVersions, verdict \in Verdicts :
          RecvResponse(url, rVersion, verdict)
    \/ RecvError
    \/ SendCtxDone
    \/ SendNewStream
    \/ ProcessResourceRequest
    \/ ProcessAckRequest

Spec == Init /\ [][Next]_vars

\* Next with one resource type, one name list and one version: the steps of
\* adsRunner, send and Close do not depend on which type, names or version a
\* request or a response carries.
LiveNext ==
    \/ SendRequest("A", <<"x">>)
    \/ CloseCancel
    \/ CloseRelease
    \/ RunnerLoop
    \/ RunnerTimer
    \/ RunnerCtxDone
    \/ RunnerOpenFail
    \/ RunnerOpenOk
    \/ RunnerDrain
    \/ RunnerPublish
    \/ \E verdict \in Verdicts : RecvResponse("A", "1", verdict)
    \/ RecvError
    \/ SendCtxDone
    \/ SendNewStream
    \/ ProcessResourceRequest
    \/ ProcessAckRequest

\* The program with the progress its goroutines make: adsRunner and Close run on
\* when they can, the backoff timer fires, send's select takes the ready
\* <-ctx.Done() case after finitely many other takes, and a stream creation
\* or a Recv in flight returns an error once the context is cancelled.
FairSpec ==
    /\ Init /\ [][LiveNext]_vars
    /\ WF_vars(\/ RunnerLoop
               \/ RunnerTimer
               \/ RunnerDrain
               \/ RunnerPublish
               \/ (cancelled /\ (RunnerOpenFail \/ RecvError)))
    /\ WF_vars(SendCtxDone)
    /\ WF_vars(CloseRelease)

\* ============================================================ properties
\* Steps of send, recognised by what they consume.
TakesRequest == adsRequestCh # <<>> /\ adsRequestCh' = Tail(adsRequestCh)
TakesStream  == adsStreamCh # <<>> /\ adsStreamCh' = Tail(adsStreamCh)
                  /\ runnerPc' = runnerPc

\* Some Send call of the step just taken matches (s, url, version, nonce, err).
Sends(w, s, url, version, nonce, err) ==
    \E i \in DOMAIN w :
        /\ w[i].stream = s /\ w[i].url = url /\ w[i].version = version
        /\ w[i].nonce = nonce /\ w[i].err = err

\* C1: an ACK for a response accepted on stream S, taken from the queue while
\* the receiver still reads S, S is the stream send holds or is about to take
\* from the stream channel, and the type has subscribed names, is sent on S
\* with the response's version and nonce and no error detail, and the version
\* and nonce tables then hold that version and nonce.
C1_AckSentInEveryInterleaving ==
    [][ ( /\ TakesRequest
          /\ Head(adsRequestCh).kind = "ack"
          /\ ~Head(adsRequestCh).nackErr
          /\ runnerPc = "recv"
          /\ Head(adsRequestCh).stream = runnerStream
          /\ (stream = runnerStream \/ adsStreamCh = <<runnerStream>>)
          /\ Head(adsRequestCh).url \in DOMAIN resources
          /\ resources[Head(adsRequestCh).url] # {} )
        => ( /\ Sends(wire', runnerStream, Head(adsRequestCh).url,
                      Head(adsRequestCh).version, Head(adsRequestCh).nonce, FALSE)
             /\ Get(versions', Head(adsRequestCh).url) = Head(adsRequestCh).version
             /\ Get(nonces', Head(adsRequestCh).url) = Head(adsRequestCh).nonce )
      ]_vars

\* C2: a NACK is built with the version table's entry for its type as of the
\* rejection (so the rejected version only if that was the accepted one) and
\* the response's nonce; when send processes it the request sent carries that
\* version, that nonce and an error detail, the version table is unchanged and
\* the nonce table holds the nonce.
C2_NackCarriesAcceptedVersion ==
    [][ /\ \A url \in Types, rVersion \in RecvVersions :
             RecvResponse(url, rVersion, "reject") =>
               LET nack == adsRequestCh'[Len(adsRequestCh')] IN
                 /\ Len(adsRequestCh') = Len(adsRequestCh) + 1
                 /\ nack.kind = "ack" /\ nack.nackErr /\ nack.url = url
                 /\ nack.version = Get(versions, url)
                 /\ nack.nonce = NonceOf(numResponses')
        /\ ( /\ TakesRequest
             /\ Head(adsRequestCh).kind = "ack"
             /\ Head(adsRequestCh).nackErr
             /\ Head(adsRequestCh).stream = stream )
           => ( /\ versions' = versions
                /\ Get(nonces', Head(adsRequestCh).url) = Head(adsRequestCh).nonce
                /\ \A i \in DOMAIN wire' :
                      /\ wire'[i].url = Head(adsRequestCh).url
                      /\ wire'[i].version = Head(adsRequestCh).version
                      /\ wire'[i].nonce = Head(adsRequestCh).nonce
                      /\ wire'[i].err )
      ]_vars

\* A NACK for the second response was sent carrying the version "1" accepted
\* before it, and the version table still holds "1".
C2_Witness ==
    /\ sendOp = "ack"
    /\ Len(wire) = 1
    /\ wire[1].err /\ wire[1].version = "1" /\ wire[1].nonce = "n2"
    /\ Get(versions, wire[1].url) = "1"
    /\ Get(nonces, wire[1].url) = "n2"

\* C3: taking an ACK/NACK whose stream differs from send's current stream (nil
\* included) changes no nonce, no version and sends nothing.
C3_StaleAckIsNoOp ==
    [][ ( /\ TakesRequest
          /\ Head(adsRequestCh).kind = "ack"
          /\ Head(adsRequestCh).stream # stream )
        => (nonces' = nonces /\ versions' = versions /\ wire' = <<>>)
      ]_vars

\* A stale ACK/NACK was dropped while send held a newer stream.
C3_Witness ==
    /\ sendOp = "ackStale"
    /\ stream # NoStream

\* C4: when send takes a new stream handle the nonce table becomes empty, the
\* version table and the subscriptions stay as they were, and every request of
\* the resend carries an empty nonce and the version table's entry of its type.
C4_ResendClearsOnlyNonces ==
    [][ TakesStream =>
          /\ DOMAIN nonces' = {}
          /\ versions' = versions
          /\ resources' = resources
          /\ \A i \in DOMAIN wire' :
                /\ wire'[i].nonce = NoNonce
                /\ wire'[i].version = Get(versions, wire'[i].url)
                /\ ~wire'[i].err
      ]_vars

\* A resend on a later stream carried a version ACKed on an earlier one.
C4_Witness ==
    /\ sendOp = "existing"
    /\ nonces = EmptyMap
    /\ \E i \in DOMAIN wire : wire[i].version # NoVersion

\* C5: the resend on a new stream carries, for a type, exactly the names of
\* the last resourceRequest send processed for that type, and nothing for a
\* type without one; processing a resourceRequest for one type leaves the
\* subscriptions of the other types as they were.
C5_ResendLastWriteWins ==
    [][ /\ TakesStream =>
             \A i \in DOMAIN wire' :
                /\ wire'[i].url \in DOMAIN subscribed
                /\ Range(wire'[i].names) = Range(subscribed[wire'[i].url])
                /\ Len(wire'[i].names) = Cardinality(Range(wire'[i].names))
        /\ (TakesRequest /\ Head(adsRequestCh).kind = "resource") =>
             \A url \in Types \ {Head(adsRequestCh).url} :
                /\ (url \in DOMAIN resources') = (url \in DOMAIN resources)
                /\ url \in DOMAIN resources => resources'[url] = resources[url]
      ]_vars

\* Two resourceRequests, both for the same type, were processed and the
\* resend then carried the single name of the later one.
C5_Witness ==
    /\ sendOp = "existing"
    /\ numSubscribes = 2
    /\ adsRequestCh = <<>>
    /\ Cardinality(DOMAIN subscribed) = 1
    /\ Len(wire) = 1
    /\ wire[1].names = <<"x">>

\* C6: taking an ACK/NACK whose type has no entry, or an empty entry, in the
\* subscriptions sends nothing and leaves the version table unchanged.
C6_NoSubscriptionNoSend ==
    [][ ( /\ TakesRequest
          /\ Head(adsRequestCh).kind = "ack"
          /\ \/ Head(adsRequestCh).url \notin DOMAIN resources
             \/ resources[Head(adsRequestCh).url] = {} )
        => (wire' = <<>> /\ versions' = versions)
      ]_vars

\* An ACK for the current stream was dropped because its type was subscribed
\* with no names; its nonce was still recorded.
C6_Witness ==
    /\ sendOp = "ackNoResources"
    /\ stream # NoStream
    /\ \E url \in DOMAIN resources :
          resources[url] = {} /\ Get(nonces, url) # NoNonce

\* C7: after send takes an ACK/NACK of its current stream the nonce table
\* holds the request's nonce for its type, sent or dropped; after an ACK that
\* is sent the version table holds the ACK's version.
C7_NonceAlwaysVersionOnAck ==
    [][ ( /\ TakesRequest
          /\ Head(adsRequestCh).kind = "ack"
          /\ Head(adsRequestCh).stream = stream )
        => ( /\ Get(nonces', Head(adsRequestCh).url) = Head(adsRequestCh).nonce
             /\ (~Head(adsRequestCh).nackErr /\ wire' # <<>>) =>
                   Get(versions', Head(adsRequestCh).url) = Head(adsRequestCh).version )
      ]_vars

\* A second response of a type was ACKed and sent: both tables moved on to it.
C7_Witness ==
    /\ sendOp = "ack"
    /\ Len(wire) = 1
    /\ ~wire[1].err /\ wire[1].nonce = "n2" /\ wire[1].version = "2"
    /\ Get(nonces, wire[1].url) = "n2"
    /\ Get(versions, wire[1].url) = "2"

\* The resend of one step: each send but the last succeeded, no type is sent
\* twice, and every subscribed type is sent unless the last send failed.
ResendComplete(w) ==
    /\ \A i \in DOMAIN w : i < Len(w) => w[i].ok
    /\ \A i, j \in DOMAIN w : w[i].url = w[j].url => i = j
    /\ \/ Len(w) = Cardinality(DOMAIN resources)
       \/ (w # <<>> /\ ~w[Len(w)].ok)

\* C8 as stated: a resourceRequest processed without a stream sends nothing
\* and records its names, and when send takes a stream handle a request for
\* every type so recorded is sent on that stream with its names, the version
\* table's version and an empty nonce.
C8_SubscribeSentOnNextStream ==
    [][ /\ ( /\ TakesRequest
             /\ Head(adsRequestCh).kind = "resource"
             /\ stream = NoStream )
           => ( /\ wire' = <<>>
                /\ Head(adsRequestCh).url \in DOMAIN resources'
                /\ resources'[Head(adsRequestCh).url] = Range(Head(adsRequestCh).resources) )
        /\ TakesStream =>
             \A url \in DOMAIN subscribed :
                \E i \in DOMAIN wire' :
                   /\ wire'[i].stream = Head(adsStreamCh)
                   /\ wire'[i].url = url
                   /\ Range(wire'[i].names) = Range(subscribed[url])
                   /\ wire'[i].version = Get(versions, url)
                   /\ wire'[i].nonce = NoNonce
      ]_vars

\* C8 amended: as above, except that the resend stops at the first send that
\* fails, so a type is sent on that stream unless an earlier send of the same
\* resend failed.
C8_SubscribeSentUnlessSendFails ==
    [][ /\ ( /\ TakesRequest
             /\ Head(adsRequestCh).kind = "resource"
             /\ stream = NoStream )
           => ( /\ wire' = <<>>
                /\ Head(adsRequestCh).url \in DOMAIN resources'
                /\ resources'[Head(adsRequestCh).url] = Range(Head(adsRequestCh).resources) )
        /\ TakesStream =>
             /\ ResendComplete(wire')
             /\ DOMAIN resources = DOMAIN subscribed
             /\ \A i \in DOMAIN wire' :
                   /\ wire'[i].stream = Head(adsStreamCh)
                   /\ wire'[i].url \in DOMAIN subscribed
                   /\ Range(wire'[i].names) = Range(subscribed[wire'[i].url])
                   /\ wire'[i].version = Get(versions, wire'[i].url)
                   /\ wire'[i].nonce = NoNonce
      ]_vars

\* Two types were subscribed before any stream existed; the first stream's
\* resend sent both, with empty version and nonce.
C8_Witness ==
    /\ sendOp = "existing"
    /\ numStreams = 1
    /\ Len(wire) = 2
    /\ \A i \in DOMAIN wire :
          wire[i].ok /\ wire[i].version = NoVersion /\ wire[i].nonce = NoNonce
    /\ \E i \in DOMAIN wire : wire[i].names = <<"x", "y">>

\* Number of attempts at the end of the history that did not reset the backoff.
RECURSIVE TrailingFailures(_)
TrailingFailures(h) ==
    IF h = <<>> \/ h[Len(h)] THEN 0
    ELSE 1 + TrailingFailures(SubSeq(h, 1, Len(h) - 1))

\* C9: after an attempt that read no response (open failed, or the stream
\* ended first) the timer is set to backoff(k), k the number of such attempts
\* in a row before it, and the counter is k+1; after a stream that read a
\* response the timer is set to zero and the counter is 0.
C9_BackoffFollowsAttempts ==
    outcomes # <<>> =>
       IF outcomes[Len(outcomes)]
         THEN backoffTimer = ZeroDelay /\ backoffAttempt = 0
         ELSE /\ backoffTimer = backoff(TrailingFailures(outcomes) - 1)
              /\ backoffAttempt = TrailingFailures(outcomes)

\* A failure, then a stream that read a response, then a failure: the delay
\* is backoff(0) again.
C9_Witness ==
    /\ outcomes = <<FALSE, TRUE, FALSE>>
    /\ backoffTimer = backoff(0)
    /\ backoffAttempt = 1

\* C10: the connection is released only once shutdown was signalled and
\* adsRunner (with recv inside it) has exited.
C10_ReleaseAfterRunnerExit ==
    ccClosed => (cancelled /\ runnerPc = "done")

\* The connection was released after a stream had been opened and read.
C10_Witness ==
    /\ ccClosed
    /\ numStreams >= 1
    /\ numResponses >= 1

\* C11: send processes the requests in exactly the order in which they were
\* put on adsRequestCh, whatever their kinds: the tickets send has taken so far
\* are 1, 2, ..., n in this order (none twice, none skipped), and the requests
\* still queued are the next ones, in ticket order.
C11_SenderTakesInPutOrder ==
    /\ taken = [i \in 1..Len(taken) |-> i]
    /\ \A i \in DOMAIN adsRequestCh : adsRequestCh[i].seq = Len(taken) + i
    /\ numPuts = Len(taken) + Len(adsRequestCh)

\* A request was taken while an ACK/NACK request and a later resourceRequest
\* wait in the queue.
C11_Witness ==
    /\ taken # <<>>
    /\ Len(adsRequestCh) >= 2
    /\ adsRequestCh[1].kind = "ack"
    /\ adsRequestCh[2].kind = "resource"

\* C12: a request that send transmits with an error detail (a NACK) for type T
\* carries Version Table[T] as it is at the moment of the transmission, also
\* when an ACK for an earlier response of T was still queued when recv built
\* the NACK.
C12_NackVersionCurrentAtTransmit ==
    \A i \in DOMAIN wire :
        wire[i].err => wire[i].version = Get(versions, wire[i].url)

C14_UnsupportedIsIgnored ==
    [][ /\ \A n \in unsupportedNonces' :
             /\ \A i \in DOMAIN adsRequestCh' : adsRequestCh'[i].nonce # n
             /\ \A i \in DOMAIN wire' : wire'[i].nonce # n
             /\ \A url \in DOMAIN nonces' : nonces'[url] # n
        /\ (unsupportedNonces' # unsupportedNonces =>
               /\ adsRequestCh' = adsRequestCh
               /\ stateVars' = stateVars
               /\ runnerPc = "recv" /\ runnerPc' = "recv"
               /\ runnerStream' = runnerStream
               /\ msgReceived')
        /\ ((runnerPc = "recv" /\ runnerPc' = "loop" /\ msgReceived) =>
               /\ backoffTimer' = ZeroDelay
               /\ backoffAttempt' = 0) ]_vars

\* The only response of a stream was of an unsupported type; the stream has
\* ended and the backoff was reset.
C14_Witness ==
    /\ unsupportedNonces = {NonceOf(1)}
    /\ numResponses = 1
    /\ outcomes = <<TRUE>>
    /\ backoffTimer = ZeroDelay
    /\ numPuts = 0

\* C15: a failed Send is the last Send of its step and leaves send without a
\* stream; without a stream send transmits nothing, a resourceRequest still
\* updates t.resources, an ackRequest changes no map, and send gets a stream
\* again only by taking a handle from adsStreamCh.
C15_NoSendWithoutStream ==
    [][ /\ \A i \in DOMAIN wire' :
             ~wire'[i].ok => (i = Len(wire') /\ stream' = NoStream)
        /\ ((stream = NoStream /\ TakesRequest) =>
               /\ wire' = <<>>
               /\ stream' = NoStream
               /\ versions' = versions
               /\ nonces' = nonces
               /\ (Head(adsRequestCh).kind = "resource" =>
                      resources' = Put(resources, Head(adsRequestCh).url,
                                       sliceToMap(Head(adsRequestCh).resources)))
               /\ (Head(adsRequestCh).kind = "ack" => resources' = resources))
        /\ ((stream' # stream /\ stream' # NoStream) => TakesStream) ]_vars

\* sendExisting failed before it reached every tracked type.
C15_Witness ==
    /\ sendOp = "existing"
    /\ wire # <<>>
    /\ ~wire[Len(wire)].ok
    /\ Len(wire) < Cardinality(DOMAIN resources)
    /\ stream = NoStream

\* The stream most recently put on adsStreamCh.
LastPublished == IF runnerPc \in {"drain", "publish"} THEN numStreams - 1 ELSE numStreams

\* C16: putting a new stream on adsStreamCh never blocks adsRunner: the
\* channel holds at most one handle, it is empty when adsRunner is about to
\* put one (a pending handle was discarded), and a handle in the channel is
\* the most recently published one, wherever send is.
C16_PublishNeverBlocks ==
    /\ Len(adsStreamCh) <= StreamChCap
    /\ (runnerPc = "publish" => Len(adsStreamCh) < StreamChCap)
    /\ (adsStreamCh # <<>> => adsStreamCh = <<LastPublished>>)
    /\ stream \in {NoStream} \cup 1..LastPublished

\* The second stream is in the channel; send never took the first one.
C16_Witness ==
    /\ numStreams = 2
    /\ adsStreamCh = <<2>>
    /\ taken = <<>>
    /\ sendOp = "none"

\* C17: no failed stream creation and no stream end stops adsRunner: every
\* finished attempt was reported to adsStreamErrHandler exactly once, adsRunner
\* returns only after cancellation, and while the context is not cancelled a
\* finished attempt is followed by another stream creation attempt.
C17_RunnerAlwaysRetries ==
    /\ [](numErrors = Len(outcomes))
    /\ [](runnerPc = "done" => cancelled)
    /\ ((runnerPc = "loop" /\ outcomes # <<>>) ~> (runnerPc = "open" \/ cancelled))

\* adsRunner is creating a stream again after a failed creation and after a
\* stream that ended.
C17_Witness ==
    /\ runnerPc = "open"
    /\ ~cancelled
    /\ numOpenFails = 1
    /\ numStreams = 1
    /\ numErrors = 2

\* C18: once Close has cancelled the context, adsRunner returns, send returns
\* and Close returns; after adsRunner has returned it creates no stream.
C18_ShutdownTerminates ==
    /\ (cancelled ~> (runnerPc = "done" /\ senderPc = "done" /\ closePc = "closed"))
    /\ [][runnerPc = "done" =>
            (runnerPc' = "done" /\ numStreams' = numStreams)]_vars

\* Everything has returned although requests are still queued.
C18_Witness ==
    /\ runnerPc = "done"
    /\ senderPc = "done"
    /\ closePc = "closed"
    /\ adsRequestCh # <<>>
    /\ numStreams >= 1

\* C19: after t.cc.Close() no goroutine of the transport uses the connection
\* or a stream of it: adsRunner (and recv) have returned, and send makes no
\* Send call.
C19_NoUseAfterRelease ==
    [][ccClosed =>
          /\ runnerPc = "done" /\ runnerPc' = "done"
          /\ numStreams' = numStreams
          /\ numResponses' = numResponses
          /\ ((TakesRequest \/ TakesStream) => wire' = <<>>)]_vars

\* C20: t.versions changes only when send processes an ackRequest without
\* nackErr, of its current stream, for a url with a non-empty entry in
\* t.resources, and then only at that url; every other step of send, recv and
\* adsRunner leaves t.versions as it is.
C20_VersionsChangeOnlyOnAck ==
    [][versions' # versions =>
          /\ TakesRequest
          /\ Head(adsRequestCh).kind = "ack"
          /\ ~Head(adsRequestCh).nackErr
          /\ Head(adsRequestCh).stream = stream
          /\ Head(adsRequestCh).url \in DOMAIN resources
          /\ resources[Head(adsRequestCh).url] # {}
          /\ versions' = Put(versions, Head(adsRequestCh).url,
                             Head(adsRequestCh).version)]_vars

\* A version ACKed on the first stream is sent again by sendExisting on the
\* second stream.
C20_Witness ==
    /\ sendOp = "existing"
    /\ stream = 2
    /\ \E i \in DOMAIN wire :
          /\ wire[i].version # NoVersion
          /\ wire[i].version = Get(versions, wire[i].url)

\* recv read nonce n in a response for type url on stream s.
ReceivedOn(n, s, url) ==
    \E k \in DOMAIN received :
        /\ NonceOf(k) = n
        /\ received[k] = [stream |-> s, url |-> url]

\* C21: nonces never leak across streams: a request sent on stream S for type
\* T with a non-empty nonce carries a nonce recv read in a response for T on
\* S, and while send holds a stream every entry of t.nonces was read on that
\* stream for its type.
C21_NoncesStayOnTheirStream ==
    /\ \A i \in DOMAIN wire :
          wire[i].nonce # NoNonce =>
              ReceivedOn(wire[i].nonce, wire[i].stream, wire[i].url)
    /\ (stream # NoStream =>
          \A url \in DOMAIN nonces : ReceivedOn(nonces[url], stream, url))

\* send holds the second stream with an empty nonce table and has just dropped
\* the ACK of a response read on the first stream.
C21_Witness ==
    /\ sendOp = "ackStale"
    /\ stream = 2
    /\ nonces = EmptyMap
    /\ received # <<>>
    /\ received[Len(received)].stream = 1

\* C22: a request with an empty name list for type T is sent only when the
\* last resourceRequest send processed for T had an empty name list;
\* processing an ackRequest never sends one, and sendExisting sends one for T
\* only when t.resources has an empty entry for T.
C22_WildcardOnlyWhenSubscribed ==
    \A i \in DOMAIN wire :
        wire[i].names = <<>> =>
            /\ wire[i].url \in DOMAIN subscribed
            /\ subscribed[wire[i].url] = <<>>
            /\ sendOp \in {"resource", "existing"}
            /\ (sendOp = "existing" =>
                   /\ wire[i].url \in DOMAIN resources
                   /\ resources[wire[i].url] = {})

\* sendExisting has sent a request without names for one type and a request
\* with names for another.
C22_Witness ==
    /\ sendOp = "existing"
    /\ \E i, j \in DOMAIN wire :
          /\ wire[i].names = <<>>
          /\ resources[wire[i].url] = {}
          /\ wire[j].names # <<>>

====
